---- MODULE Spec2Model ----
(***************************************************************************)
(* Model of db_internals: lexer.Tokenize (src/lexer/lexer.go) followed by  *)
(* the recursive-descent parser (src/parser/parser.go), as ParseString     *)
(* runs them.                                                              *)
(*                                                                         *)
(* A Go string is a TLA+ string (ASCII only); its k-th byte, counted from  *)
(* 0 as in the source, is At(s, k).  Indices i and pos are 0-based as in   *)
(* the source.                                                             *)
(***************************************************************************)
EXTENDS Integers, Sequences, FiniteSets, TLC

VARIABLES input, i, current, tokens, pc, pos, out, result

vars == <<input, i, current, tokens, pc, pos, out, result>>

(***************************************************************************)
(* Bounds of the model.                                                    *)
(***************************************************************************)
\* longest input drawn from all strings over LexAlphabet
MaxLen == 3

\* most comparisons in a WHERE clause
MaxTerms == 3

\* most words in a generated VALUES list
MaxValueWords == 3

\* most words in a generated CREATE TABLE column list
MaxColumnWords == 5

\* most statements in one input
MaxStatements == 2

(***************************************************************************)
(* Strings.                                                                *)
(***************************************************************************)
Upper == "ABCDEFGHIJKLMNOPQRSTUVWXYZ"

Lower == "abcdefghijklmnopqrstuvwxyz"

Digits == "0123456789"

\* the byte s[k] of the source, k 0-based
At(s, k) == SubSeq(s, k + 1, k + 1)

\* the slice s[a:b] of the source, 0-based, b exclusive
Slice(s, a, b) == SubSeq(s, a + 1, b)

\* strings.ToLower / strings.ToUpper on one ASCII character
ToLowerCh(c) ==
    IF \E k \in 0..25 : At(Upper, k) = c
    THEN At(Lower, CHOOSE k \in 0..25 : At(Upper, k) = c)
    ELSE c

ToUpperCh(c) ==
    IF \E k \in 0..25 : At(Lower, k) = c
    THEN At(Upper, CHOOSE k \in 0..25 : At(Lower, k) = c)
    ELSE c

RECURSIVE ToLower(_)
ToLower(s) == IF s = "" THEN "" ELSE ToLowerCh(Head(s)) \o ToLower(Tail(s))

RECURSIVE ToUpper(_)
ToUpper(s) == IF s = "" THEN "" ELSE ToUpperCh(Head(s)) \o ToUpper(Tail(s))

\* strings.EqualFold on ASCII strings
EqualFold(s, t) == ToLower(s) = ToLower(t)

(***************************************************************************)
(* lexer.go: token types and the fixed tables.                             *)
(***************************************************************************)
TokenKeyword == "KEYWORD"
TokenIdentifier == "IDENTIFIER"
TokenOperator == "OPERATOR"
TokenNumber == "NUMBER"
TokenString == "STRING"
TokenSeparator == "SEPARATOR"

Token(type, value) == [Type |-> type, Value |-> value]

keywords ==
    { "select", "from", "where", "create", "table", "insert", "into", "values",
      "limit", "and", "or", "null", "update", "delete", "drop" }

operators == { "=", "!=", "<", ">", "<=", ">=" }

separators == { ",", ";", "(", ")", "*" }

isWhitespace(ch) == ch = " " \/ ch = "\t" \/ ch = "\n" \/ ch = "\r"

isOperator(s) == s \in operators

isSeparator(ch) == ch \in separators

isNumeric(value) ==
    /\ value # ""
    /\ \A k \in 0..(Len(value) - 1) :
          (\E d \in 0..9 : At(Digits, d) = At(value, k)) \/ At(value, k) = "."

\* a slip: the keyword's text stored lower-cased
createTokenLowered(value) ==
    IF ToLower(value) \in keywords THEN Token(TokenKeyword, ToLower(value))
    ELSE IF isNumeric(value) THEN Token(TokenNumber, value)
    ELSE Token(TokenIdentifier, value)

createToken(value) ==
    IF ToLower(value) \in keywords THEN Token(TokenKeyword, value)
    ELSE IF isNumeric(value) THEN Token(TokenNumber, value)
    ELSE Token(TokenIdentifier, value)

(***************************************************************************)
(* Tokenize: one action per branch of the scan loop.                       *)
(***************************************************************************)
\* "if current.Len() > 0 { tokens = append(tokens, createToken(...)) }"
Flush(toks, cur) == IF Len(cur) > 0 THEN Append(toks, createToken(cur)) ELSE toks

\* a slip: the operator branch steps back after flushing the buffer
OperatorStartBack(idx, cur) == IF Len(cur) > 0 THEN idx - 1 ELSE idx

\* index skipped to by the operator branch after it flushed the buffer
OperatorStart(idx, cur) == IF Len(cur) > 0 THEN idx + 1 ELSE idx

\* the inner loop of the string branch: first index >= k holding quote, or len
RECURSIVE StringEnd(_, _, _)
StringEnd(s, k, quote) ==
    IF k < Len(s) /\ At(s, k) # quote THEN StringEnd(s, k + 1, quote) ELSE k

InLoop == pc = "scan" /\ i < Len(input)

ScanWhitespace ==
    /\ InLoop
    /\ isWhitespace(At(input, i))
    /\ tokens' = Flush(tokens, current)
    /\ current' = ""
    /\ i' = i + 1
    /\ UNCHANGED <<input, pc, pos, out, result>>

ScanSeparator ==
    /\ InLoop
    /\ ~isWhitespace(At(input, i))
    /\ isSeparator(At(input, i))
    /\ tokens' = Append(Flush(tokens, current),
                        Token(TokenSeparator, At(input, i)))
    /\ current' = ""
    /\ i' = i + 1
    /\ UNCHANGED <<input, pc, pos, out, result>>

OperatorHere ==
    \/ isOperator(At(input, i))
    \/ (Len(input) > i + 1 /\ isOperator(Slice(input, i, i + 2)))

ScanOperator ==
    /\ InLoop
    /\ ~isWhitespace(At(input, i))
    /\ ~isSeparator(At(input, i))
    /\ OperatorHere
    /\ LET ch == At(input, i)
           j == OperatorStart(i, current)
           two == j + 1 < Len(input) /\ isOperator(Slice(input, j, j + 2))
       IN  /\ tokens' = Append(Flush(tokens, current),
                               IF two
                               THEN Token(TokenOperator, Slice(input, j, j + 2))
                               ELSE Token(TokenOperator, ch))
           /\ i' = IF two THEN j + 2 ELSE j + 1
    /\ current' = ""
    /\ UNCHANGED <<input, pc, pos, out, result>>

isQuote(ch) == ch = "'" \/ ch = "\""

\* the indices of s that one round of the scan loop at idx reads
ScanReads(s, idx, cur) ==
    LET ch == At(s, idx)
        j == OperatorStart(idx, cur)
        pair == Len(s) > idx + 1
    IN  {idx}
        \cup (IF isWhitespace(ch) \/ isSeparator(ch) THEN {}
              ELSE (IF ~isOperator(ch) /\ pair THEN {idx + 1} ELSE {})
                   \cup (IF isOperator(ch) \/ (pair /\ isOperator(Slice(s, idx, idx + 2)))
                         THEN (IF j + 1 < Len(s) THEN {j, j + 1} ELSE {})
                         ELSE IF isQuote(ch)
                         THEN { k \in (idx + 1)..(Len(s) - 1) : k <= StringEnd(s, idx + 1, ch) }
                         ELSE {}))

ScanString ==
    /\ InLoop
    /\ ~isWhitespace(At(input, i))
    /\ ~isSeparator(At(input, i))
    /\ ~OperatorHere
    /\ isQuote(At(input, i))
    /\ LET e == StringEnd(input, i + 1, At(input, i))
       IN  /\ tokens' = Append(Flush(tokens, current),
                               Token(TokenString, Slice(input, i + 1, e)))
           /\ i' = IF e < Len(input) THEN e + 1 ELSE e
    /\ current' = ""
    /\ UNCHANGED <<input, pc, pos, out, result>>

ScanAppend ==
    /\ InLoop
    /\ ~isWhitespace(At(input, i))
    /\ ~isSeparator(At(input, i))
    /\ ~OperatorHere
    /\ ~isQuote(At(input, i))
    /\ current' = current \o At(input, i)
    /\ i' = i + 1
    /\ UNCHANGED <<input, tokens, pc, pos, out, result>>

\* the loop has ended: flush what is pending and hand the tokens to the parser
ScanEnd ==
    /\ pc = "scan"
    /\ i >= Len(input)
    /\ tokens' = Flush(tokens, current)
    /\ current' = ""
    /\ pc' = "parse"
    /\ UNCHANGED <<input, i, pos, out, result>>

(***************************************************************************)
(* parser.go: syntax tree.  A uint64 is written as its canonical decimal   *)
(* digits (no leading zero), since 2^64-1 is beyond TLC's integers.        *)
(***************************************************************************)
Nil == [node |-> "nil"]

NilTok == [Type |-> "nil", Value |-> ""]

NoErr == [fmt |-> "", args |-> <<>>]

Err(fmt, args) == [fmt |-> fmt, args |-> args]

IsErr(e) == e.fmt # ""

ProjectionItem(all, column) == [All |-> all, Column |-> column]

SelectStmt(proj, table, selection, limit) ==
    [node |-> "SelectStmt", Projections |-> proj, From |-> [Name |-> table],
     Selection |-> selection, Limit |-> limit]

InsertStmt(table, vals) ==
    [node |-> "InsertStmt", TableName |-> table, Values |-> vals]

CreateTableStmt(table, cols) ==
    [node |-> "CreateTableStmt", TableName |-> table, Columns |-> cols]

ColumnDef(name, typ) == [Name |-> name, Type |-> typ]

ColumnRef(name) == [node |-> "ColumnRef", Name |-> name]

LiteralInt(u) == [node |-> "LiteralInt", Value |-> u]

LiteralString(s) == [node |-> "LiteralString", Value |-> s]

LogicalOp(left, op, right) ==
    [node |-> "LogicalOp", Left |-> left, Op |-> op, Right |-> right]

ComparisonOp(left, op, right) ==
    [node |-> "ComparisonOp", Left |-> left, Op |-> op, Right |-> right]

\* the *uint64 of SelectStmt.Limit
Uint64Ptr(u) == [node |-> "uint64", Value |-> u]

(***************************************************************************)
(* strconv.ParseUint(v, 10, 64) and the strings helpers the parser calls.  *)
(***************************************************************************)
MaxUint64 == "18446744073709551615"

IsDigit(c) == \E d \in 0..9 : At(Digits, d) = c

DigitVal(c) == CHOOSE d \in 0..9 : At(Digits, d) = c

RECURSIVE DropZeros(_)
DropZeros(s) ==
    IF Len(s) > 1 /\ Head(s) = "0" THEN DropZeros(Tail(s)) ELSE s

\* a <= b for two digit strings of equal length
RECURSIVE DigitsLeq(_, _)
DigitsLeq(a, b) ==
    IF a = "" THEN TRUE
    ELSE IF Head(a) # Head(b) THEN DigitVal(Head(a)) < DigitVal(Head(b))
    ELSE DigitsLeq(Tail(a), Tail(b))

FitsUint64(c) ==
    \/ Len(c) < Len(MaxUint64)
    \/ (Len(c) = Len(MaxUint64) /\ DigitsLeq(c, MaxUint64))

ParseUint(v) ==
    IF v = "" \/ \E k \in 0..(Len(v) - 1) : ~IsDigit(At(v, k))
    THEN [val |-> "0",
          err |-> Err("strconv.ParseUint: parsing %q: invalid syntax", <<v>>)]
    ELSE IF ~FitsUint64(DropZeros(v))
    THEN [val |-> MaxUint64,
          err |-> Err("strconv.ParseUint: parsing %q: value out of range", <<v>>)]
    ELSE [val |-> DropZeros(v), err |-> NoErr]

\* strings.Contains(v, ".")
ContainsDot(v) == \E k \in 0..(Len(v) - 1) : At(v, k) = "."

\* strings.SplitN(v, ".", 2)[0]
BeforeDot(v) ==
    IF ContainsDot(v)
    THEN Slice(v, 0, CHOOSE k \in 0..(Len(v) - 1) :
                        At(v, k) = "." /\ \A m \in 0..(k - 1) : At(v, m) # ".")
    ELSE v

\* strconv.Quote of a string of digits and dots
Quote(s) == "\"" \o s \o "\""

\* the text fmt.Errorf makes of a format and its arguments; the verbs the
\* parser uses are %s, %v and, in strconv's own error, %q
RECURSIVE Sprintf(_, _)
Sprintf(format, args) ==
    IF format = "" THEN ""
    ELSE IF Head(format) = "%" /\ Len(format) >= 2
    THEN (IF At(format, 1) = "q" THEN Quote(Head(args)) ELSE Head(args))
         \o Sprintf(Slice(format, 2, Len(format)), Tail(args))
    ELSE Head(format) \o Sprintf(Tail(format), args)

\* err.Error()
ErrorText(e) == Sprintf(e.fmt, e.args)

\* %v of a *lexer.Token: the struct's fields, or <nil>
PtrText(t) ==
    IF t.Type = "nil" THEN "<nil>" ELSE "&{" \o t.Type \o " " \o t.Value \o "}"

\* a slip: the token text handed on whole, as after LIMIT
TruncateNothing(v) == v

\* "if strings.Contains(v, ".") { v = strings.SplitN(v, ".", 2)[0] }"
Truncate(v) == IF ContainsDot(v) THEN BeforeDot(v) ELSE v

(***************************************************************************)
(* parser.go: the cursor and the sub-parsers.  Each sub-parser returns the *)
(* cursor it leaves, the node it built and its error.                      *)
(***************************************************************************)
KwSELECT == "SELECT"
KwINSERT == "INSERT"
KwCREATE == "CREATE"
KwFROM == "FROM"
KwWHERE == "WHERE"
KwLIMIT == "LIMIT"
KwAND == "AND"
KwOR == "OR"
KwINTO == "INTO"
KwVALUES == "VALUES"
KwTABLE == "TABLE"

R(p, node, err) == [pos |-> p, node |-> node, err |-> err]

peek(toks, p) == IF p >= Len(toks) THEN NilTok ELSE toks[p + 1]

IsSep(t, v) == t.Type = TokenSeparator /\ t.Value = v

IsKw(t, name) == t.Type = TokenKeyword /\ EqualFold(t.Value, name)

consumeKeyword(toks, p, name) ==
    IF IsKw(peek(toks, p), name)
    THEN [ok |-> TRUE, pos |-> p + 1]
    ELSE [ok |-> FALSE, pos |-> p]

expectKeyword(toks, p, name) ==
    LET c == consumeKeyword(toks, p, name)
        t == peek(toks, p)
    IN  IF c.ok THEN R(c.pos, Nil, NoErr)
        ELSE IF t = NilTok
        THEN R(p, Nil, Err("expected keyword %s, got eof", <<name>>))
        ELSE R(p, Nil, Err("expected keyword %s, got %s", <<name, t.Value>>))

\* a slip: any token that is no Number or String taken as a column reference
\* on the right side
parseComparisonAnyRight(toks, p) ==
    LET l == peek(toks, p)
        o == peek(toks, p + 1)
        r == peek(toks, p + 2)
        left == ColumnRef(l.Value)
        u == ParseUint(Truncate(r.Value))
    IN  IF l = NilTok
        THEN R(p, Nil, Err("unexpected eof in expression", <<>>))
        ELSE IF l.Type # TokenIdentifier
        THEN R(p, Nil, Err("expected identifier on left side of comparison, got %v", <<PtrText(l)>>))
        ELSE IF o = NilTok \/ o.Type # TokenOperator
        THEN R(p + 1, Nil, Err("expected comparison operator, got %v", <<PtrText(o)>>))
        ELSE IF r = NilTok
        THEN R(p + 2, Nil, Err("unexpected eof after operator", <<>>))
        ELSE IF r.Type = TokenNumber
        THEN IF IsErr(u.err) THEN R(p + 3, Nil, u.err)
             ELSE R(p + 3, ComparisonOp(left, o.Value, LiteralInt(u.val)), NoErr)
        ELSE IF r.Type = TokenString
        THEN R(p + 3, ComparisonOp(left, o.Value, LiteralString(r.Value)), NoErr)
        ELSE R(p + 3, ComparisonOp(left, o.Value, ColumnRef(r.Value)), NoErr)

parseComparison(toks, p) ==
    LET l == peek(toks, p)
        o == peek(toks, p + 1)
        r == peek(toks, p + 2)
        left == ColumnRef(l.Value)
        u == ParseUint(Truncate(r.Value))
    IN  IF l = NilTok
        THEN R(p, Nil, Err("unexpected eof in expression", <<>>))
        ELSE IF l.Type # TokenIdentifier
        THEN R(p, Nil, Err("expected identifier on left side of comparison, got %v", <<PtrText(l)>>))
        ELSE IF o = NilTok \/ o.Type # TokenOperator
        THEN R(p + 1, Nil, Err("expected comparison operator, got %v", <<PtrText(o)>>))
        ELSE IF r = NilTok
        THEN R(p + 2, Nil, Err("unexpected eof after operator", <<>>))
        ELSE IF r.Type = TokenNumber
        THEN IF IsErr(u.err) THEN R(p + 3, Nil, u.err)
             ELSE R(p + 3, ComparisonOp(left, o.Value, LiteralInt(u.val)), NoErr)
        ELSE IF r.Type = TokenString
        THEN R(p + 3, ComparisonOp(left, o.Value, LiteralString(r.Value)), NoErr)
        ELSE IF r.Type = TokenIdentifier
        THEN R(p + 3, ComparisonOp(left, o.Value, ColumnRef(r.Value)), NoErr)
        ELSE R(p + 2, Nil, Err("unexpected token on right side of comparison: %v", <<PtrText(r)>>))

\* a slip: AND made to bind tighter than a preceding OR
FoldAndFirst(left, op, right) ==
    IF op = "AND" /\ left.node = "LogicalOp" /\ left.Op = "OR"
    THEN LogicalOp(left.Left, "OR", LogicalOp(left.Right, op, right))
    ELSE LogicalOp(left, op, right)

\* one more LogicalOp around what has been folded so far
Fold(left, op, right) == LogicalOp(left, op, right)

\* the for loop of parseLogical
RECURSIVE LogicalLoop(_, _, _)
LogicalLoop(toks, p, left) ==
    LET t == peek(toks, p)
        right == parseComparison(toks, p + 1)
    IN  IF IsKw(t, KwAND) \/ IsKw(t, KwOR)
        THEN IF IsErr(right.err) THEN R(right.pos, Nil, right.err)
             ELSE LogicalLoop(toks, right.pos,
                              Fold(left, ToUpper(t.Value), right.node))
        ELSE R(p, left, NoErr)

parseLogical(toks, p) ==
    LET first == parseComparison(toks, p)
    IN  IF IsErr(first.err) THEN R(first.pos, Nil, first.err)
        ELSE LogicalLoop(toks, first.pos, first.node)

\* the for loop of the projection list in parseSelect
RECURSIVE ProjectionLoop(_, _, _)
ProjectionLoop(toks, p, proj) ==
    LET t == peek(toks, p)
        added == Append(proj, ProjectionItem(FALSE, t.Value))
    IN  IF t = NilTok \/ t.Type # TokenIdentifier
        THEN R(p, proj, Err("expected projection identifier, got %v", <<PtrText(t)>>))
        ELSE IF IsSep(peek(toks, p + 1), ",")
        THEN ProjectionLoop(toks, p + 2, added)
        ELSE R(p + 1, added, NoErr)

parseProjections(toks, p) ==
    IF peek(toks, p) = NilTok
    THEN R(p, <<>>, Err("unexpected eof after SELECT", <<>>))
    ELSE IF IsSep(peek(toks, p), "*")
    THEN R(p + 1, <<ProjectionItem(TRUE, "")>>, NoErr)
    ELSE ProjectionLoop(toks, p, <<>>)

\* the optional WHERE of parseSelect
parseWhere(toks, p) ==
    IF IsKw(peek(toks, p), KwWHERE) THEN parseLogical(toks, p + 1)
    ELSE R(p, Nil, NoErr)

\* the number after LIMIT goes to ParseUint as it stands
LimitText(v) == v

\* the optional LIMIT of parseSelect
parseLimit(toks, p) ==
    LET t == peek(toks, p + 1)
        u == ParseUint(LimitText(t.Value))
    IN  IF IsKw(peek(toks, p), KwLIMIT)
        THEN IF t = NilTok \/ t.Type # TokenNumber
             THEN R(p + 1, Nil, Err("expected number after LIMIT", <<>>))
             ELSE IF IsErr(u.err) THEN R(p + 2, Nil, u.err)
             ELSE R(p + 2, Uint64Ptr(u.val), NoErr)
        ELSE R(p, Nil, NoErr)

parseSelect(toks, p) ==
    LET proj == parseProjections(toks, p + 1)
        from == expectKeyword(toks, proj.pos, KwFROM)
        tbl == peek(toks, from.pos)
        where == parseWhere(toks, from.pos + 1)
        limit == parseLimit(toks, where.pos)
    IN  IF IsErr(proj.err) THEN R(proj.pos, Nil, proj.err)
        ELSE IF IsErr(from.err) THEN R(from.pos, Nil, from.err)
        ELSE IF tbl = NilTok \/ tbl.Type # TokenIdentifier
        THEN R(from.pos, Nil, Err("expected table identifier after FROM", <<>>))
        ELSE IF IsErr(where.err) THEN R(where.pos, Nil, where.err)
        ELSE IF IsErr(limit.err) THEN R(limit.pos, Nil, limit.err)
        ELSE R(limit.pos,
               SelectStmt(proj.node, tbl.Value, where.node, limit.node), NoErr)

\* one round of the column list loop on a token that is not ")": the token
\* is consumed, and a comma after it too
ColumnListStep(toks, p) == IF IsSep(peek(toks, p + 1), ",") THEN p + 2 ELSE p + 1

\* the optional column list of parseInsert: every token up to ")" is skipped
RECURSIVE ColumnListLoop(_, _)
ColumnListLoop(toks, p) ==
    IF peek(toks, p) = NilTok
    THEN R(p, Nil, Err("unexpected eof in column list", <<>>))
    ELSE IF IsSep(peek(toks, p), ")") THEN R(p + 1, Nil, NoErr)
    ELSE ColumnListLoop(toks, ColumnListStep(toks, p))

parseColumnList(toks, p) ==
    IF IsSep(peek(toks, p), "(") THEN ColumnListLoop(toks, p + 1)
    ELSE R(p, Nil, NoErr)

\* a slip: ")" accepted without the hasValues check
ValuesCloseUnchecked(p, vals, hasValues) == R(p, vals, NoErr)

\* what the values loop does on ")": an empty list is an error
ValuesClose(p, vals, hasValues) ==
    IF ~hasValues
    THEN R(p, vals, Err("expected at least one value in VALUES list", <<>>))
    ELSE R(p, vals, NoErr)

\* a slip: a quoted string taken for a column reference
ValueExprStringAsColumn(t, u) ==
    IF t.Type = TokenNumber THEN LiteralInt(u) ELSE ColumnRef(t.Value)

\* the Expr a value token of a VALUES list becomes
ValueExpr(t, u) ==
    IF t.Type = TokenNumber THEN LiteralInt(u)
    ELSE IF t.Type = TokenString THEN LiteralString(t.Value)
    ELSE ColumnRef(t.Value)

\* the for loop of the VALUES list in parseInsert
RECURSIVE ValuesLoop(_, _, _, _)
ValuesLoop(toks, p, vals, hasValues) ==
    LET t == peek(toks, p)
        u == ParseUint(Truncate(t.Value))
        added == Append(vals, ValueExpr(t, u.val))
    IN  IF t = NilTok
        THEN R(p, vals, Err("unexpected eof in values", <<>>))
        ELSE IF IsSep(t, ")") THEN ValuesClose(p, vals, hasValues)
        ELSE IF t.Type = TokenNumber /\ IsErr(u.err) THEN R(p + 1, vals, u.err)
        ELSE IF t.Type \in {TokenNumber, TokenString, TokenIdentifier}
        THEN IF IsSep(peek(toks, p + 1), ",")
             THEN ValuesLoop(toks, p + 2, added, TRUE)
             ELSE R(p + 1, added, NoErr)
        ELSE R(p, vals, Err("unexpected token in VALUES: %v", <<PtrText(t)>>))

parseInsert(toks, p) ==
    LET into == expectKeyword(toks, p + 1, KwINTO)
        tbl == peek(toks, into.pos)
        cols == parseColumnList(toks, into.pos + 1)
        values == expectKeyword(toks, cols.pos, KwVALUES)
        vals == ValuesLoop(toks, values.pos + 1, <<>>, FALSE)
    IN  IF IsErr(into.err) THEN R(into.pos, Nil, into.err)
        ELSE IF tbl = NilTok \/ tbl.Type # TokenIdentifier
        THEN R(into.pos, Nil, Err("expected table name after INTO", <<>>))
        ELSE IF IsErr(cols.err) THEN R(cols.pos, Nil, cols.err)
        ELSE IF IsErr(values.err) THEN R(values.pos, Nil, values.err)
        ELSE IF ~IsSep(peek(toks, values.pos), "(")
        THEN R(values.pos, Nil, Err("expected '(' to start VALUES list", <<>>))
        ELSE IF IsErr(vals.err) THEN R(vals.pos, Nil, vals.err)
        ELSE IF ~IsSep(peek(toks, vals.pos), ")")
        THEN R(vals.pos, Nil, Err("expected ')' after values list", <<>>))
        ELSE R(vals.pos + 1, InsertStmt(tbl.Value, vals.node), NoErr)

\* what the column-definition loop does on ")": an empty list is an error
ColumnDefsClose(p, cols, hasColumns) ==
    IF ~hasColumns
    THEN R(p, cols, Err("expected at least one column definition", <<>>))
    ELSE R(p + 1, cols, NoErr)

\* where the column-definition loop resumes after a definition that no comma
\* follows: the loop has no break there, so it goes round again
AfterColumnDef(toks, p) == IF IsSep(peek(toks, p), ",") THEN p + 1 ELSE p

\* the for loop of the column definitions in parseCreateTable
RECURSIVE ColumnDefLoop(_, _, _, _)
ColumnDefLoop(toks, p, cols, hasColumns) ==
    LET name == peek(toks, p)
        typ == peek(toks, p + 1)
    IN  IF name = NilTok
        THEN R(p, cols, Err("unexpected eof in column definitions", <<>>))
        ELSE IF IsSep(name, ")") THEN ColumnDefsClose(p, cols, hasColumns)
        ELSE IF name.Type # TokenIdentifier
        THEN R(p, cols, Err("expected column name, got %v", <<PtrText(name)>>))
        ELSE IF typ = NilTok \/ typ.Type # TokenIdentifier
        THEN R(p + 1, cols, Err("expected column type for %s", <<name.Value>>))
        ELSE ColumnDefLoop(toks, AfterColumnDef(toks, p + 2),
                           Append(cols, ColumnDef(name.Value, typ.Value)), TRUE)

parseCreateTable(toks, p) ==
    LET table == expectKeyword(toks, p + 1, KwTABLE)
        tbl == peek(toks, table.pos)
        cols == ColumnDefLoop(toks, table.pos + 2, <<>>, FALSE)
    IN  IF IsErr(table.err) THEN R(table.pos, Nil, table.err)
        ELSE IF tbl = NilTok \/ tbl.Type # TokenIdentifier
        THEN R(table.pos, Nil, Err("expected table name after CREATE TABLE", <<>>))
        ELSE IF ~IsSep(peek(toks, table.pos + 1), "(")
        THEN R(table.pos + 1, Nil, Err("expected '(' after table name", <<>>))
        ELSE IF IsErr(cols.err) THEN R(cols.pos, Nil, cols.err)
        ELSE R(cols.pos, CreateTableStmt(tbl.Value, cols.node), NoErr)

\* a slip: the statement keyword matched on the token's text alone
parseStatementAnyType(toks, p) ==
    LET t == peek(toks, p)
    IN  IF t = NilTok THEN R(p, Nil, Err("unexpected eof", <<>>))
        ELSE IF ToUpper(t.Value) = KwSELECT THEN parseSelect(toks, p)
        ELSE IF ToUpper(t.Value) = KwINSERT THEN parseInsert(toks, p)
        ELSE IF ToUpper(t.Value) = KwCREATE THEN parseCreateTable(toks, p)
        ELSE R(p, Nil, Err("unsupported statement starting with %v", <<t.Value>>))

parseStatement(toks, p) ==
    LET t == peek(toks, p)
    IN  IF t = NilTok THEN R(p, Nil, Err("unexpected eof", <<>>))
        ELSE IF t.Type = TokenKeyword /\ ToUpper(t.Value) = KwSELECT
        THEN parseSelect(toks, p)
        ELSE IF t.Type = TokenKeyword /\ ToUpper(t.Value) = KwINSERT
        THEN parseInsert(toks, p)
        ELSE IF t.Type = TokenKeyword /\ ToUpper(t.Value) = KwCREATE
        THEN parseCreateTable(toks, p)
        ELSE R(p, Nil, Err("unsupported statement starting with %v", <<t.Value>>))

(***************************************************************************)
(* parseStatements: one action per way round its loop, and its return.     *)
(***************************************************************************)
\* a slip: the statements parsed so far returned along with the error
FailureKeepsParsed(nodes, err) == [nodes |-> nodes, err |-> err]

\* "return nil, err"
Failure(nodes, err) == [nodes |-> <<>>, err |-> err]

\* "return out, nil"
Success(nodes) == [nodes |-> nodes, err |-> NoErr]

\* a slip: whatever token follows a statement consumed as its semicolon
AfterStatementAnyToken(toks, p) == IF peek(toks, p) = NilTok THEN p ELSE p + 1

\* the optional trailing semicolon
AfterStatement(toks, p) == IF IsSep(peek(toks, p), ";") THEN p + 1 ELSE p

SkipSemicolon ==
    /\ pc = "parse"
    /\ peek(tokens, pos) # NilTok
    /\ IsSep(peek(tokens, pos), ";")
    /\ pos' = pos + 1
    /\ UNCHANGED <<input, i, current, tokens, pc, out, result>>

Statement ==
    /\ pc = "parse"
    /\ peek(tokens, pos) # NilTok
    /\ ~IsSep(peek(tokens, pos), ";")
    /\ LET r == parseStatement(tokens, pos)
       IN  IF IsErr(r.err)
           THEN /\ result' = Failure(out, r.err)
                /\ pc' = "done"
                /\ pos' = r.pos
                /\ out' = out
           ELSE /\ out' = Append(out, r.node)
                /\ pos' = AfterStatement(tokens, r.pos)
                /\ UNCHANGED <<pc, result>>
    /\ UNCHANGED <<input, i, current, tokens>>

Return ==
    /\ pc = "parse"
    /\ peek(tokens, pos) = NilTok
    /\ result' = Success(out)
    /\ pc' = "done"
    /\ UNCHANGED <<input, i, current, tokens, pos, out>>

(***************************************************************************)
(* Inputs.                                                                 *)
(***************************************************************************)
\* every string of at most MaxLen characters over LexAlphabet
LexAlphabet == { "a", "1", " ", "=", "!", "<", "'", "\"" }

RECURSIVE StringsUpTo(_)
StringsUpTo(n) ==
    IF n = 0 THEN { "" }
    ELSE LET shorter == StringsUpTo(n - 1)
         IN  shorter \cup { s \o c : s \in shorter, c \in LexAlphabet }

\* every string made of at most n words of pool, each preceded by a space
RECURSIVE WordsUpTo(_, _)
WordsUpTo(pool, n) ==
    IF n = 0 THEN { "" }
    ELSE LET shorter == WordsUpTo(pool, n - 1)
         IN  shorter \cup { s \o " " \o w : s \in shorter, w \in pool }

\* the queries of lexer_test.go and parser_test.go
TestInputs ==
    { "SELECT * FROM users WHERE id = 123",
      "price >= 10.5",
      "CREATE TABLE users (id, name);",
      "insert into t values (1,'Alice')",
      "INSERT INTO table_name VALUES (1, 'Alice', 42);",
      "INSERT INTO table_name VALUES (1, 2, 3);",
      "SELECT col1, col2 FROM table_name;",
      "SELECT * FROM table_name;",
      "SELECT col1, col2 FROM table_name WHERE col1 > 10;",
      "SELECT col1 FROM table_name WHERE col2 = 'Alice' LIMIT 10;",
      "CREATE TABLE table_name (column_name1 INT,column_name2 TEXT);",
      "SELECT 'unclosed string FROM t",
      "INSERT INTO t VALUES (\"unterminated",
      "SELECT * FROM t)",
      "SELECT FROM t", "SELECT * FROM", "SELECT * FROM t WHERE",
      "INSERT INTO t VALUES", "CREATE TABLE t()", "WHERE" }

\* SELECT statements: projection, FROM, WHERE and LIMIT each present,
\* absent or malformed
Projections == { " *", " a", " a,b", " a , b", "" }

Froms == { " FROM t", " from t", " FROM" }

Comparators == { " = ", "=", "!=", " <= ", ">=", " " }

Operands == { "1", "10.5", ".5", "1.2.3", "'x y'", "b", "NULL" }

Comparisons == { "a" \o o \o r : o \in Comparators, r \in Operands }

Wheres == { "", " WHERE", " WHERE a = 1", " WHERE a=1" }

Limits == { "", " LIMIT", " LIMIT 10", " LIMIT 10.5", " limit 007;" }

SelectInputs ==
    { "SELECT" \o p \o f \o w \o l :
        p \in Projections, f \in Froms, w \in Wheres, l \in Limits }
    \cup { "SELECT * FROM t WHERE " \o c \o l :
             c \in Comparisons, l \in { "", " LIMIT 10" } }

\* WHERE clauses of up to MaxTerms comparisons joined by AND / OR
Terms == << "a = 1", "b != 'x'", "c < d", "e >= 5", "f = 6" >>

Connectives == { " AND ", " OR ", " and " }

RECURSIVE Conditions(_)
Conditions(n) ==
    IF n = 1 THEN { Terms[1] }
    ELSE { c \o k \o Terms[n] : c \in Conditions(n - 1), k \in Connectives }

LogicalInputs ==
    { "SELECT * FROM t WHERE " \o c \o l :
        c \in UNION { Conditions(n) : n \in 1..MaxTerms },
        l \in { "", " AND", " LIMIT 5" } }

\* INSERT statements: the VALUES list is any run of at most MaxValueWords
\* words, with or without the optional column list
ValueWords == { "1", "10.5", ".5", "'x'", "b", "," }

ColumnLists == { " (a)", " (a, b)", "(a,b)" }

BigNumbers ==
    { "18446744073709551615", "18446744073709551616",
      "18446744073709551616.5", "018446744073709551615.9" }

InsertInputs ==
    { "INSERT INTO t VALUES (" \o v \o ")" :
        v \in WordsUpTo(ValueWords, MaxValueWords) }
    \cup { "INSERT INTO t" \o c \o " VALUES (1, 'x')" : c \in ColumnLists }
    \cup { "INSERT INTO t VALUES (" \o n \o ")" : n \in BigNumbers }
    \cup { "SELECT * FROM t WHERE a = " \o n : n \in BigNumbers }
    \cup { "INSERT INTO t VALUES (1, 'Alice', b)",
           "INSERT INTO t VALUES (007.5,'x y',c,42)" }
    \cup { "INSERT INTO t VALUES (1", "INSERT INTO t VALUES 1)",
           "INSERT INTO t (a VALUES (1)", "INSERT INTO VALUES (1)",
           "INSERT INTO t VALUES (1,)", "INSERT INTO t VALUES (1,'x',)" }

\* CREATE TABLE statements: the column list is any run of at most
\* MaxColumnWords words
ColumnWords == { "id", "INT", "," }

CreateInputs ==
    { "CREATE TABLE t (" \o c \o ")" : c \in WordsUpTo(ColumnWords, MaxColumnWords) }
    \cup { "CREATE TABLE t (id INT", "CREATE TABLE (id INT)", "CREATE t (id INT)",
           "CREATE TABLE t id INT", "CREATE TABLE t (id INT name TEXT)",
           "CREATE TABLE t (id INT,)", "CREATE TABLE t (id)" }

\* inputs of up to MaxStatements statements, each after a gap
Statements == { "SELECT * FROM t", "INSERT INTO t VALUES (1)", "DROP" }

Gaps == { " ", ";", "; ;" }

RECURSIVE Scripts(_)
Scripts(n) ==
    IF n = 0 THEN { "" }
    ELSE LET shorter == Scripts(n - 1)
         IN  shorter \cup { s \o g \o t : s \in shorter, g \in Gaps, t \in Statements }

ScriptInputs == { s \o t : s \in Scripts(MaxStatements), t \in { "", ";" } }

\* words in several casings, and runs of digits and dots
CaseInputs ==
    { "select", "Select", "SELECT", "nUlL", "sel", "1.2.3", "..", "1a", "a.b",
      "Select 1.2.3 x1", "UPDATE(Drop,delete)" }

\* inputs whose first token, or the token after a statement, starts no
\* statement
StartInputs ==
    { "(", "*", ")", ",", "t", "42", "'x'", "= 1", "UPDATE t", "delete", "WHERE x",
      "'SELECT' * FROM t", "SELECT * FROM t UPDATE", "Create Table t (a b) ,",
      "select * from t insert into t values (1) 'x'" }

\* WHERE clauses whose comparison lacks or misplaces an operand or operator
BadComparisons ==
    { "1 = 1", "'a' = 1", "NULL = 1", "= 1", "a 1", "a", "a =", "a = (", "a = ,",
      "a = NULL", "a = and", "a = = 1", "a = 1 = 2", "( a = 1 )", "a < 'x'", "a > b" }

ComparisonInputs == { "SELECT * FROM t WHERE " \o c : c \in BadComparisons }

\* INSERT statements whose optional column list is not identifiers separated
\* by single commas
BadColumnLists ==
    { " ()", " (1)", " ('x')", " (=)", " (SELECT)", " ((a)", " (a b)", " (,a)",
      " (a,,b)", " (a,)", " (a, 1)", " (a", " (a,b" }

ColumnListInputs ==
    { "INSERT INTO t" \o c \o " VALUES (1)" : c \in BadColumnLists }

\* inputs of semicolons alone, and statements with many or no semicolons
SemicolonInputs ==
    { ";", ";;", " ; ; ; ", "SELECT * FROM t;;;;INSERT INTO t VALUES (1);;",
      "SELECT * FROM t SELECT * FROM t INSERT INTO t VALUES (1)",
      ";;SELECT * FROM t;INSERT INTO t VALUES (1);SELECT * FROM t" }

Inputs ==
    StringsUpTo(MaxLen) \cup TestInputs \cup SelectInputs \cup LogicalInputs
    \cup InsertInputs \cup CreateInputs \cup ScriptInputs \cup CaseInputs
    \cup StartInputs \cup ComparisonInputs \cup ColumnListInputs
    \cup SemicolonInputs

\* ParseString has not returned yet
NoResult == [nodes |-> <<>>, err |-> NoErr]

Init ==
    /\ input \in Inputs
    /\ i = 0
    /\ current = ""
    /\ tokens = <<>>
    /\ pc = "scan"
    /\ pos = 0
    /\ out = <<>>
    /\ result = NoResult

Next ==
    \/ ScanWhitespace
    \/ ScanSeparator
    \/ ScanOperator
    \/ ScanString
    \/ ScanAppend
    \/ ScanEnd
    \/ SkipSemicolon
    \/ Statement
    \/ Return

Spec == Init /\ [][Next]_vars

(***************************************************************************)
(* What the specification says of tokenization, written without reference  *)
(* to the scan loop: the claims compare Tokenize against it.               *)
(***************************************************************************)
RefWhitespace == { " ", "\t", "\n", "\r" }

RefSeparators == { ",", ";", "(", ")", "*" }

RefOneCharOps == { "=", "<", ">" }

RefTwoCharOps == { "!=", "<=", ">=" }

RefQuotes == { "'", "\"" }

RefKeywords ==
    { "select", "from", "where", "create", "table", "insert", "into", "values",
      "limit", "and", "or", "null", "update", "delete", "drop" }

\* the k-th character of s, k from 1
Ch(s, k) == SubSeq(s, k, k)

\* a two-character operator starts at k
RefTwoAt(s, k) == k < Len(s) /\ SubSeq(s, k, k + 1) \in RefTwoCharOps

\* a character that ends a word starts at k
RefDelimiterAt(s, k) ==
    \/ Ch(s, k) \in RefWhitespace \cup RefSeparators \cup RefOneCharOps \cup RefQuotes
    \/ RefTwoAt(s, k)

\* least index >= k where the word starting at k ends, or Len(s) + 1
RECURSIVE RefWordEnd(_, _)
RefWordEnd(s, k) ==
    IF k > Len(s) \/ RefDelimiterAt(s, k) THEN k ELSE RefWordEnd(s, k + 1)

\* least index >= k holding the closing quote q, or Len(s) + 1
RECURSIVE RefQuoteEnd(_, _, _)
RefQuoteEnd(s, k, q) ==
    IF k > Len(s) \/ Ch(s, k) = q THEN k ELSE RefQuoteEnd(s, k + 1, q)

RefLowerCh(c) ==
    LET up == "ABCDEFGHIJKLMNOPQRSTUVWXYZ"
        lo == "abcdefghijklmnopqrstuvwxyz"
    IN  IF \E n \in 1..26 : Ch(up, n) = c
        THEN Ch(lo, CHOOSE n \in 1..26 : Ch(up, n) = c)
        ELSE c

RECURSIVE RefLower(_)
RefLower(s) == IF s = "" THEN "" ELSE RefLowerCh(Head(s)) \o RefLower(Tail(s))

RefDigitOrDot(c) == c \in { "0", "1", "2", "3", "4", "5", "6", "7", "8", "9", "." }

RefClassify(w) ==
    IF RefLower(w) \in RefKeywords THEN [Type |-> "KEYWORD", Value |-> w]
    ELSE IF \A k \in 1..Len(w) : RefDigitOrDot(Ch(w, k))
    THEN [Type |-> "NUMBER", Value |-> w]
    ELSE [Type |-> "IDENTIFIER", Value |-> w]

\* the tokens of s from index k on
RECURSIVE RefTokensFrom(_, _)
RefTokensFrom(s, k) ==
    IF k > Len(s) THEN <<>>
    ELSE IF Ch(s, k) \in RefWhitespace THEN RefTokensFrom(s, k + 1)
    ELSE IF Ch(s, k) \in RefSeparators
    THEN <<[Type |-> "SEPARATOR", Value |-> Ch(s, k)]>> \o RefTokensFrom(s, k + 1)
    ELSE IF RefTwoAt(s, k)
    THEN <<[Type |-> "OPERATOR", Value |-> SubSeq(s, k, k + 1)]>>
         \o RefTokensFrom(s, k + 2)
    ELSE IF Ch(s, k) \in RefOneCharOps
    THEN <<[Type |-> "OPERATOR", Value |-> Ch(s, k)]>> \o RefTokensFrom(s, k + 1)
    ELSE IF Ch(s, k) \in RefQuotes
    THEN LET e == RefQuoteEnd(s, k + 1, Ch(s, k))
         IN  <<[Type |-> "STRING", Value |-> SubSeq(s, k + 1, e - 1)]>>
             \o RefTokensFrom(s, e + 1)
    ELSE LET e == RefWordEnd(s, k)
         IN  <<RefClassify(SubSeq(s, k, e - 1))>> \o RefTokensFrom(s, e)

RefTokens(s) == RefTokensFrom(s, 1)

\* s from index k on, without the whitespace outside string literals and
\* without the quotes that delimit them; q is the open quote, "" outside
RECURSIVE RefStripFrom(_, _, _)
RefStripFrom(s, k, q) ==
    IF k > Len(s) THEN ""
    ELSE IF q # ""
    THEN IF Ch(s, k) = q THEN RefStripFrom(s, k + 1, "")
         ELSE Ch(s, k) \o RefStripFrom(s, k + 1, q)
    ELSE IF Ch(s, k) \in RefWhitespace THEN RefStripFrom(s, k + 1, "")
    ELSE IF Ch(s, k) \in RefQuotes THEN RefStripFrom(s, k + 1, Ch(s, k))
    ELSE Ch(s, k) \o RefStripFrom(s, k + 1, "")

\* the token values of toks, concatenated in order
RECURSIVE Concatenated(_)
Concatenated(toks) ==
    IF toks = <<>> THEN "" ELSE Head(toks).Value \o Concatenated(Tail(toks))

\* the values of the Operator tokens of toks, in order
RECURSIVE OperatorValues(_)
OperatorValues(toks) ==
    IF toks = <<>> THEN <<>>
    ELSE IF Head(toks).Type = "OPERATOR"
    THEN <<Head(toks).Value>> \o OperatorValues(Tail(toks))
    ELSE OperatorValues(Tail(toks))

RECURSIVE Only(_, _)
Only(vals, set) ==
    IF vals = <<>> THEN <<>>
    ELSE IF Head(vals) \in set THEN <<Head(vals)>> \o Only(Tail(vals), set)
    ELSE Only(Tail(vals), set)

Tokenized == pc # "scan"

(***************************************************************************)
(* C1.  For every input, the values of the tokens Tokenize returns,        *)
(* concatenated in order, are the input without its out-of-string          *)
(* whitespace and its string-delimiting quotes: no character is dropped or *)
(* duplicated.  The code violates it: the operator branch skips a          *)
(* character whenever a word is pending.                                   *)
(***************************************************************************)
C1_NoCharacterLost ==
    Tokenized => Concatenated(tokens) = RefStripFrom(input, 1, "")

(***************************************************************************)
(* C2.  Every two-character operator (!=, <=, >=) outside a string literal *)
(* comes out as one Operator token with that value, never as an Operator   *)
(* token for its first character: the two-character Operator tokens are    *)
(* exactly the two-character operators of the input, in order, and there   *)
(* are no more one-character Operator tokens !, < or > than the input has  *)
(* standalone.  The code violates it when the operator follows a pending   *)
(* word.                                                                   *)
(***************************************************************************)
C2_TwoCharOperatorsWhole ==
    Tokenized =>
        LET got == OperatorValues(tokens)
            want == OperatorValues(RefTokens(input))
        IN  /\ Only(got, RefTwoCharOps) = Only(want, RefTwoCharOps)
            /\ \A c \in { "!", "<", ">" } :
                  Len(Only(got, {c})) <= Len(Only(want, {c}))

(***************************************************************************)
(* Shapes of token sequences, and the tree the specification gives them.   *)
(***************************************************************************)
Returned == pc = "done"

Failed == Returned /\ IsErr(result.err)

Succeeded == Returned /\ ~IsErr(result.err)

\* ParseString returned an error and no nodes
Rejected == Failed /\ result.nodes = <<>>

KwAt(t, k, name) ==
    k \in 1..Len(t) /\ t[k].Type = "KEYWORD" /\ RefLower(t[k].Value) = name

SepAt(t, k, v) == k \in 1..Len(t) /\ t[k].Type = "SEPARATOR" /\ t[k].Value = v

TypeAt(t, k, types) == k \in 1..Len(t) /\ t[k].Type \in types

\* the digits of v before its first ".", all of v when it has none
RECURSIVE RefIntegerPart(_)
RefIntegerPart(v) ==
    IF v = "" \/ Head(v) = "." THEN "" ELSE Head(v) \o RefIntegerPart(Tail(v))

\* digit string d without its leading zeros: the decimal form of its value
RECURSIVE RefDecimal(_)
RefDecimal(d) ==
    IF Len(d) > 1 /\ Head(d) = "0" THEN RefDecimal(Tail(d)) ELSE d

RefDigit(c) == CHOOSE n \in 0..9 : Ch("0123456789", n + 1) = c

\* a < b for decimal forms a and b
RECURSIVE RefLess(_, _)
RefLess(a, b) ==
    IF Len(a) # Len(b) THEN Len(a) < Len(b)
    ELSE IF a = "" THEN FALSE
    ELSE IF Head(a) # Head(b) THEN RefDigit(Head(a)) < RefDigit(Head(b))
    ELSE RefLess(Tail(a), Tail(b))

\* the integer part of Number text v is an unsigned 64-bit integer
RefConvertible(v) ==
    /\ RefIntegerPart(v) # ""
    /\ RefLess(RefDecimal(RefIntegerPart(v)), "18446744073709551616")

RefHasDot(v) == \E k \in 1..Len(v) : Ch(v, k) = "."

\* the expression the specification gives an operand or value token
RefOperand(tok) ==
    IF tok.Type = "NUMBER"
    THEN [node |-> "LiteralInt", Value |-> RefDecimal(RefIntegerPart(tok.Value))]
    ELSE IF tok.Type = "STRING" THEN [node |-> "LiteralString", Value |-> tok.Value]
    ELSE [node |-> "ColumnRef", Name |-> tok.Value]

\* t[k .. k+2] is identifier, operator, operand
ComparisonAt(t, k) ==
    /\ TypeAt(t, k, {"IDENTIFIER"})
    /\ TypeAt(t, k + 1, {"OPERATOR"})
    /\ t[k + 1].Value \in RefOneCharOps \cup RefTwoCharOps
    /\ TypeAt(t, k + 2, {"NUMBER", "STRING", "IDENTIFIER"})

\* ... whose operand, when a Number, has a convertible integer part
GoodComparisonAt(t, k) ==
    /\ ComparisonAt(t, k)
    /\ t[k + 2].Type = "NUMBER" => RefConvertible(t[k + 2].Value)

RefComparison(t, k) ==
    [node |-> "ComparisonOp", Left |-> [node |-> "ColumnRef", Name |-> t[k].Value],
     Op |-> t[k + 1].Value, Right |-> RefOperand(t[k + 2])]

\* t begins SELECT * FROM <identifier>
SelectAllFrom(t) ==
    /\ KwAt(t, 1, "select") /\ SepAt(t, 2, "*") /\ KwAt(t, 3, "from")
    /\ TypeAt(t, 4, {"IDENTIFIER"})

\* t is SELECT * FROM <identifier> WHERE <identifier> <operator> <operand>
SingleComparison(t) ==
    SelectAllFrom(t) /\ KwAt(t, 5, "where") /\ ComparisonAt(t, 6) /\ Len(t) = 8

\* t is INSERT INTO <identifier> VALUES ( v , v , ... , v ) with n >= 1 values
InsertValues(t) ==
    /\ KwAt(t, 1, "insert") /\ KwAt(t, 2, "into") /\ TypeAt(t, 3, {"IDENTIFIER"})
    /\ KwAt(t, 4, "values") /\ SepAt(t, 5, "(")
    /\ Len(t) >= 7 /\ Len(t) % 2 = 1 /\ SepAt(t, Len(t), ")")
    /\ \A k \in 6..(Len(t) - 1) :
          IF k % 2 = 0 THEN TypeAt(t, k, {"NUMBER", "STRING", "IDENTIFIER"})
          ELSE SepAt(t, k, ",")

\* the positions of the values of InsertValues(t)
ValueAt(t) == { k \in 6..(Len(t) - 1) : k % 2 = 0 }

RefInsert(t) ==
    [node |-> "InsertStmt", TableName |-> t[3].Value,
     Values |-> [n \in 1..((Len(t) - 5) \div 2) |-> RefOperand(t[4 + 2 * n])]]

(***************************************************************************)
(* C3.  When ParseString fails it returns an error and no nodes, also      *)
(* when statements earlier in the input had been parsed.                   *)
(***************************************************************************)
C3_NoPartialResult == Failed => result.nodes = <<>>

\* a failure after at least one statement had been parsed
C3_Witness == Failed /\ Len(out) >= 1 /\ result.nodes = <<>>

(***************************************************************************)
(* C4 as claimed.  A Number token containing "." as the right operand of a *)
(* WHERE comparison or as a value of a VALUES list is always converted,    *)
(* without a parse error, to the LiteralInt of its integer prefix.         *)
(***************************************************************************)
C4_FractionAlwaysConverted ==
    Returned =>
        /\ (SingleComparison(tokens) /\ tokens[8].Type = "NUMBER"
              /\ RefHasDot(tokens[8].Value))
           => (/\ Succeeded
               /\ Len(result.nodes) = 1
               /\ result.nodes[1].Selection = RefComparison(tokens, 6))
        /\ (InsertValues(tokens)
              /\ \E k \in ValueAt(tokens) :
                    tokens[k].Type = "NUMBER" /\ RefHasDot(tokens[k].Value))
           => (/\ Succeeded
               /\ Len(result.nodes) = 1
               /\ result.nodes[1] = RefInsert(tokens))

(***************************************************************************)
(* C4 as amended.  Such a token is converted to the LiteralInt of its      *)
(* integer prefix when the text before its first "." is a non-empty digit  *)
(* string of value at most 2^64-1; when that text is empty or larger (and  *)
(* likewise when another Number of the same VALUES list is), ParseString   *)
(* returns an error and no nodes.                                          *)
(***************************************************************************)
C4_FractionConvertedWhenIntegerPart ==
    Returned =>
        /\ (SingleComparison(tokens) /\ tokens[8].Type = "NUMBER"
              /\ RefHasDot(tokens[8].Value))
           => IF RefConvertible(tokens[8].Value)
              THEN /\ Succeeded
                   /\ Len(result.nodes) = 1
                   /\ result.nodes[1].Selection = RefComparison(tokens, 6)
              ELSE Rejected
        /\ (InsertValues(tokens)
              /\ \E k \in ValueAt(tokens) :
                    tokens[k].Type = "NUMBER" /\ RefHasDot(tokens[k].Value))
           => IF \A k \in ValueAt(tokens) :
                    tokens[k].Type = "NUMBER" => RefConvertible(tokens[k].Value)
              THEN /\ Succeeded
                   /\ Len(result.nodes) = 1
                   /\ result.nodes[1] = RefInsert(tokens)
              ELSE Rejected

\* 10.5 as a WHERE operand has become LiteralInt(10)
C4_Witness ==
    /\ Succeeded
    /\ SingleComparison(tokens)
    /\ tokens[8] = [Type |-> "NUMBER", Value |-> "10.5"]
    /\ result.nodes[1].Selection.Right = [node |-> "LiteralInt", Value |-> "10"]

(***************************************************************************)
(* C5.  A fractional Number after LIMIT is truncated to its integer prefix *)
(* as in WHERE and VALUES: SELECT * FROM t LIMIT 10.5 parses to a          *)
(* SelectStmt of limit 10.  The code violates it: parseSelect hands the    *)
(* whole token text to ParseUint.                                          *)
(***************************************************************************)
C5_LimitFractionTruncated ==
    (/\ Returned
     /\ SelectAllFrom(tokens) /\ KwAt(tokens, 5, "limit") /\ Len(tokens) = 6
     /\ tokens[6].Type = "NUMBER" /\ RefHasDot(tokens[6].Value)
     /\ RefConvertible(tokens[6].Value))
    => (/\ Succeeded
        /\ Len(result.nodes) = 1
        /\ result.nodes[1].Limit =
              [node |-> "uint64", Value |-> RefDecimal(RefIntegerPart(tokens[6].Value))])

\* t[a .. b] is <identifier> <identifier> ( , <identifier> <identifier> )*
RECURSIVE ColumnDefs(_, _, _)
ColumnDefs(t, a, b) ==
    /\ b >= a + 1
    /\ TypeAt(t, a, {"IDENTIFIER"}) /\ TypeAt(t, a + 1, {"IDENTIFIER"})
    /\ \/ b = a + 1
       \/ (SepAt(t, a + 2, ",") /\ ColumnDefs(t, a + 3, b))

\* t is CREATE TABLE <identifier> ( ... )
CreateTable(t) ==
    /\ KwAt(t, 1, "create") /\ KwAt(t, 2, "table") /\ TypeAt(t, 3, {"IDENTIFIER"})
    /\ SepAt(t, 4, "(") /\ Len(t) >= 5 /\ SepAt(t, Len(t), ")")

\* ... whose column list ends in a comma with no definition after it
TrailingComma(t) ==
    CreateTable(t) /\ SepAt(t, Len(t) - 1, ",") /\ ColumnDefs(t, 5, Len(t) - 2)

\* ... whose last column definition is a name with no type
MissingType(t) ==
    /\ CreateTable(t)
    /\ TypeAt(t, Len(t) - 1, {"IDENTIFIER"})
    /\ \/ Len(t) = 6
       \/ (SepAt(t, Len(t) - 2, ",") /\ ColumnDefs(t, 5, Len(t) - 3))

(***************************************************************************)
(* C6.  In CREATE TABLE an incomplete trailing column definition, a comma  *)
(* followed directly by ")" or a column name with no type, makes           *)
(* ParseString return an error and no nodes.  The code violates it for the *)
(* trailing comma: after the comma the loop goes round and takes ")".      *)
(***************************************************************************)
C6_IncompleteColumnRejected ==
    (Returned /\ (TrailingComma(tokens) \/ MissingType(tokens))) => Rejected

\* the index after the projection list that starts at t[2], 0 if t[2] starts
\* no projection list
RECURSIVE IdentListEnd(_, _)
IdentListEnd(t, k) ==
    IF ~TypeAt(t, k, {"IDENTIFIER"}) THEN 0
    ELSE IF SepAt(t, k + 1, ",") THEN IdentListEnd(t, k + 2)
    ELSE k + 1

ProjectionEnd(t) == IF SepAt(t, 2, "*") THEN 3 ELSE IdentListEnd(t, 2)

\* t is SELECT <projection> FROM ..., with FROM at index ProjectionEnd(t)
SelectFrom(t) ==
    KwAt(t, 1, "select") /\ ProjectionEnd(t) > 0 /\ KwAt(t, ProjectionEnd(t), "from")

\* SELECT with nothing between SELECT and FROM
NoProjection(t) == KwAt(t, 1, "select") /\ KwAt(t, 2, "from")

\* FROM with no table identifier after it
NoTable(t) == SelectFrom(t) /\ ~TypeAt(t, ProjectionEnd(t) + 1, {"IDENTIFIER"})

\* WHERE with no comparison after it
NoComparison(t) ==
    /\ SelectFrom(t)
    /\ TypeAt(t, ProjectionEnd(t) + 1, {"IDENTIFIER"})
    /\ KwAt(t, ProjectionEnd(t) + 2, "where")
    /\ ~( /\ TypeAt(t, ProjectionEnd(t) + 3, {"IDENTIFIER"})
          /\ TypeAt(t, ProjectionEnd(t) + 4, {"OPERATOR"})
          /\ TypeAt(t, ProjectionEnd(t) + 5, {"NUMBER", "STRING", "IDENTIFIER"}) )

\* INSERT INTO <identifier> VALUES not followed by "(" and a value
NoValues(t) ==
    /\ KwAt(t, 1, "insert") /\ KwAt(t, 2, "into") /\ TypeAt(t, 3, {"IDENTIFIER"})
    /\ KwAt(t, 4, "values")
    /\ ~(SepAt(t, 5, "(") /\ TypeAt(t, 6, {"NUMBER", "STRING", "IDENTIFIER"}))

\* CREATE TABLE <identifier> ( ) ...
NoColumns(t) ==
    /\ KwAt(t, 1, "create") /\ KwAt(t, 2, "table") /\ TypeAt(t, 3, {"IDENTIFIER"})
    /\ SepAt(t, 4, "(") /\ SepAt(t, 5, ")")

(***************************************************************************)
(* C7.  ParseString returns an error and no nodes when a required element  *)
(* is empty or absent: no projection before FROM, no table identifier      *)
(* after FROM, no comparison after WHERE, VALUES not followed by a         *)
(* parenthesized list with at least one value, an empty CREATE TABLE       *)
(* column list.                                                            *)
(***************************************************************************)
C7_MissingElementRejected ==
    (/\ Returned
     /\ \/ NoProjection(tokens) \/ NoTable(tokens) \/ NoComparison(tokens)
        \/ NoValues(tokens) \/ NoColumns(tokens))
    => Rejected

\* INSERT INTO t VALUES () has been rejected
C7_Witness ==
    /\ Rejected
    /\ NoValues(tokens)
    /\ SepAt(tokens, 5, "(") /\ SepAt(tokens, 6, ")")

\* t is SELECT * FROM <identifier> WHERE c1 k1 c2 ... cn, n comparisons
\* joined by AND / OR keywords
LogicalChain(t, n) ==
    /\ SelectAllFrom(t) /\ KwAt(t, 5, "where")
    /\ Len(t) = 4 + 4 * n
    /\ \A m \in 1..n : GoodComparisonAt(t, 2 + 4 * m)
    /\ \A m \in 1..(n - 1) : KwAt(t, 5 + 4 * m, "and") \/ KwAt(t, 5 + 4 * m, "or")

\* AND or OR, as the connective keyword at t[k] names it
RefConnective(t, k) == IF KwAt(t, k, "and") THEN "AND" ELSE "OR"

\* the left-nested tree over the first n comparisons of a LogicalChain
RECURSIVE RefLeftNested(_, _)
RefLeftNested(t, n) ==
    IF n = 1 THEN RefComparison(t, 6)
    ELSE [node |-> "LogicalOp",
          Left |-> RefLeftNested(t, n - 1),
          Op |-> RefConnective(t, 1 + 4 * n),
          Right |-> RefComparison(t, 2 + 4 * n)]

(***************************************************************************)
(* C8.  Comparisons c1 .. cn joined by AND / OR in any mix parse to the    *)
(* strictly left-nested tree ((c1 k1 c2) k2 c3) ...: AND does not bind     *)
(* tighter than OR.                                                        *)
(***************************************************************************)
C8_LeftNested ==
    \A n \in 1..Len(tokens) :
        (Returned /\ LogicalChain(tokens, n))
        => (/\ Succeeded
            /\ Len(result.nodes) = 1
            /\ result.nodes[1].Selection = RefLeftNested(tokens, n))

\* c1 OR c2 AND c3 has been parsed
C8_Witness ==
    /\ Succeeded
    /\ LogicalChain(tokens, 3)
    /\ KwAt(tokens, 9, "or") /\ KwAt(tokens, 13, "and")
    /\ result.nodes[1].Selection.Op = "AND"
    /\ result.nodes[1].Selection.Left.Op = "OR"

\* t is SELECT <projection> FROM <identifier> [WHERE <comparison>]
\* [LIMIT <digits>], with in-range numbers
SelectForm(t) ==
    /\ SelectFrom(t)
    /\ LET f == ProjectionEnd(t)
           w == IF KwAt(t, f + 2, "where") THEN 4 ELSE 0
       IN  /\ TypeAt(t, f + 1, {"IDENTIFIER"})
           /\ w = 4 => GoodComparisonAt(t, f + 3)
           /\ IF KwAt(t, f + 2 + w, "limit")
              THEN /\ Len(t) = f + 3 + w
                   /\ TypeAt(t, f + 3 + w, {"NUMBER"})
                   /\ ~RefHasDot(t[f + 3 + w].Value)
                   /\ RefConvertible(t[f + 3 + w].Value)
              ELSE Len(t) = f + 1 + w

\* the SelectStmt the specification gives a SelectForm
RefSelect(t) ==
    LET f == ProjectionEnd(t)
        w == IF KwAt(t, f + 2, "where") THEN 4 ELSE 0
    IN  [node |-> "SelectStmt",
         Projections |->
             IF SepAt(t, 2, "*") THEN <<[All |-> TRUE, Column |-> ""]>>
             ELSE [n \in 1..((f - 1) \div 2) |->
                      [All |-> FALSE, Column |-> t[2 * n].Value]],
         From |-> [Name |-> t[f + 1].Value],
         Selection |->
             IF w = 4 THEN RefComparison(t, f + 3) ELSE [node |-> "nil"],
         Limit |->
             IF KwAt(t, f + 2 + w, "limit")
             THEN [node |-> "uint64", Value |-> RefDecimal(t[f + 3 + w].Value)]
             ELSE [node |-> "nil"]]

(***************************************************************************)
(* C9.  Every input of the form SELECT <wildcard | id, ..., id> FROM table *)
(* [WHERE comparison] [LIMIT number] parses to exactly one SelectStmt with *)
(* those projections in order, that table, a predicate exactly when WHERE  *)
(* is present and a limit exactly when LIMIT is present, equal to the      *)
(* number.  The code violates it when the comparison is written without    *)
(* spaces: Tokenize loses the character after the operator.                *)
(***************************************************************************)
C9_SelectParsed ==
    (Returned /\ SelectForm(RefTokens(input)))
    => (Succeeded /\ result.nodes = <<RefSelect(RefTokens(input))>>)

(***************************************************************************)
(* C10 as claimed.  Every input INSERT INTO t VALUES (v1, ..., vn), n >= 1,*)
(* parses to exactly one InsertStmt with table t and the n values in       *)
(* order: a Number a LiteralInt, a String a LiteralString of the unquoted  *)
(* text, an Identifier a ColumnRef.                                        *)
(***************************************************************************)
C10_InsertAlwaysParsed ==
    (Returned /\ InsertValues(RefTokens(input)))
    => (Succeeded /\ result.nodes = <<RefInsert(RefTokens(input))>>)

(***************************************************************************)
(* C10 as amended.  Such an input parses to that InsertStmt, a Number      *)
(* becoming the LiteralInt of its integer prefix, when every Number among  *)
(* the values has a non-empty digit string of value at most 2^64-1 before  *)
(* its first "."; otherwise ParseString returns an error and no nodes.     *)
(***************************************************************************)
C10_InsertParsedWhenNumbersConvert ==
    (Returned /\ InsertValues(RefTokens(input)))
    => IF \A k \in ValueAt(RefTokens(input)) :
             RefTokens(input)[k].Type = "NUMBER"
             => RefConvertible(RefTokens(input)[k].Value)
       THEN Succeeded /\ result.nodes = <<RefInsert(RefTokens(input))>>
       ELSE Rejected

\* a Number, a String and an Identifier have become the three values
C10_Witness ==
    /\ Succeeded
    /\ InsertValues(RefTokens(input))
    /\ Len(result.nodes) = 1
    /\ Len(result.nodes[1].Values) = 3
    /\ result.nodes[1].Values[1].node = "LiteralInt"
    /\ result.nodes[1].Values[2].node = "LiteralString"
    /\ result.nodes[1].Values[3].node = "ColumnRef"

(***************************************************************************)
(* C11.  When Tokenize flushes a pending buffer, the token it appends has  *)
(* the buffer's text unchanged and is a Keyword if the lower-cased text is *)
(* a keyword, otherwise a Number if every character is a digit or ".",     *)
(* otherwise an Identifier.                                                *)
(***************************************************************************)
C11_FlushClassifies ==
    [][(pc = "scan" /\ current # "" /\ tokens' # tokens)
          => tokens'[Len(tokens) + 1] = RefClassify(current)]_vars

\* Select, 1.2.3 and x1 have been flushed as Keyword, Number and Identifier
C11_Witness ==
    /\ Tokenized
    /\ tokens = << [Type |-> "KEYWORD", Value |-> "Select"],
                   [Type |-> "NUMBER", Value |-> "1.2.3"],
                   [Type |-> "IDENTIFIER", Value |-> "x1"] >>

\* index of the quote that opens a string literal never closed, 0 if every
\* string literal of s from index k on is closed
RECURSIVE RefUnclosedFrom(_, _)
RefUnclosedFrom(s, k) ==
    IF k > Len(s) THEN 0
    ELSE IF Ch(s, k) \in RefQuotes
    THEN IF RefQuoteEnd(s, k + 1, Ch(s, k)) > Len(s) THEN k
         ELSE RefUnclosedFrom(s, RefQuoteEnd(s, k + 1, Ch(s, k)) + 1)
    ELSE RefUnclosedFrom(s, k + 1)

RefUnclosedQuote(s) == RefUnclosedFrom(s, 1)

(***************************************************************************)
(* C12.  When a quote that opens a string literal has no later occurrence  *)
(* of the same quote character, the last token Tokenize returns is a       *)
(* String token whose value is all the input after that quote, whatever    *)
(* characters it holds.  The code violates it when the quote directly      *)
(* follows an operator that follows a word: the operator branch skips the  *)
(* quote.                                                                  *)
(***************************************************************************)
C12_UnterminatedString ==
    (Tokenized /\ RefUnclosedQuote(input) > 0)
    => (/\ tokens # <<>>
        /\ tokens[Len(tokens)] =
              [Type |-> "STRING",
               Value |-> SubSeq(input, RefUnclosedQuote(input) + 1, Len(input))])

\* tok is the keyword SELECT, INSERT or CREATE in any casing
RefStatementKeyword(tok) ==
    tok.Type = "KEYWORD" /\ RefLower(tok.Value) \in { "select", "insert", "create" }

(***************************************************************************)
(* C13.  When the token at which a statement must start is neither ";" nor *)
(* the keyword SELECT, INSERT or CREATE (any other keyword, an Identifier, *)
(* Number, String, Operator or another Separator), parse returns an error  *)
(* and no nodes.                                                           *)
(***************************************************************************)
C13_BadStartRejected ==
    [][(/\ pc = "parse"
        /\ pos < Len(tokens)
        /\ ~SepAt(tokens, pos + 1, ";")
        /\ ~RefStatementKeyword(tokens[pos + 1]))
       => (pc' = "done" /\ IsErr(result'.err) /\ result'.nodes = <<>>)]_vars

\* a String token after two parsed statements has been rejected
C13_Witness ==
    /\ Rejected
    /\ Len(out) = 2
    /\ TypeAt(tokens, pos + 1, {"STRING"})

\* t[k .. k+2] is Identifier, Operator, then Number, String or Identifier
ComparisonShape(t, k) ==
    /\ TypeAt(t, k, {"IDENTIFIER"})
    /\ TypeAt(t, k + 1, {"OPERATOR"})
    /\ TypeAt(t, k + 2, {"NUMBER", "STRING", "IDENTIFIER"})

\* t is SELECT * FROM <identifier> WHERE ...
WhereClause(t) == SelectAllFrom(t) /\ KwAt(t, 5, "where")

(***************************************************************************)
(* C14.  After WHERE, tokens that do not begin Identifier, Operator, then  *)
(* Number, String or Identifier (a Number, String or Keyword on the left,  *)
(* no Operator, a Keyword or Separator on the right, or nothing) give an   *)
(* error and no nodes; a comparison of that shape that ends the input, its *)
(* Number operand convertible, gives ComparisonOp(ColumnRef(left),         *)
(* operator text, LiteralInt | LiteralString | ColumnRef).                 *)
(***************************************************************************)
C14_ComparisonShapeOnly ==
    (Returned /\ WhereClause(tokens))
    => /\ ~ComparisonShape(tokens, 6) => Rejected
       /\ (/\ ComparisonShape(tokens, 6)
           /\ Len(tokens) = 8
           /\ tokens[8].Type = "NUMBER" => RefConvertible(tokens[8].Value))
          => (/\ Succeeded
              /\ Len(result.nodes) = 1
              /\ result.nodes[1].Selection = RefComparison(tokens, 6))

\* the keyword NULL as the right operand has been rejected
C14_Witness ==
    /\ Rejected
    /\ WhereClause(tokens)
    /\ TypeAt(tokens, 6, {"IDENTIFIER"})
    /\ TypeAt(tokens, 7, {"OPERATOR"})
    /\ KwAt(tokens, 8, "null")

\* the error text begins by naming what was expected
RefNamesExpected(msg) == Len(msg) >= 9 /\ SubSeq(msg, 1, 9) = "expected "

\* s occurs in msg
RefOccurs(msg, s) == \E k \in 1..(Len(msg) - Len(s) + 1) : SubSeq(msg, k, k + Len(s) - 1) = s

\* the error text holds what was found at cursor p of t: the value of the
\* token there, or a mark of the end of the input
RefNamesFound(msg, t, p) ==
    IF p < Len(t) THEN t[p + 1].Value # "" /\ RefOccurs(msg, t[p + 1].Value)
    ELSE RefOccurs(msg, "eof") \/ RefOccurs(msg, "<nil>")

\* the error is one the number conversion raised, not the parser
RefConversionError(msg) == Len(msg) >= 8 /\ SubSeq(msg, 1, 8) = "strconv."

(***************************************************************************)
(* C15 at every failure.  Every syntax error parse returns carries the     *)
(* construct that was expected and what was found, the offending token's   *)
(* value or a mark of the end of the input.                                *)
(***************************************************************************)
C15_ErrorNamesExpectedAndFound ==
    (Failed /\ ~RefConversionError(ErrorText(result.err)))
    => (/\ RefNamesExpected(ErrorText(result.err))
        /\ RefNamesFound(ErrorText(result.err), tokens, pos))

(***************************************************************************)
(* C15.  The syntax error parse returns carries what was found, the        *)
(* offending token's value or a mark of the end of the input, also at the  *)
(* failure sites the claim lists: a missing table identifier after FROM, a *)
(* missing number after LIMIT, a missing table name after INTO or CREATE   *)
(* TABLE, a missing "(" or ")".  The code violates it: the errors raised   *)
(* at these sites name only what was expected.                             *)
(***************************************************************************)
C15_ListedSites ==
    LET msg == ErrorText(result.err)
    IN  (/\ Failed
         /\ \/ RefOccurs(msg, "after FROM") \/ RefOccurs(msg, "after LIMIT")
            \/ RefOccurs(msg, "after INTO") \/ RefOccurs(msg, "after CREATE TABLE")
            \/ RefOccurs(msg, "expected '(' ") \/ RefOccurs(msg, "expected ')' "))
        => RefNamesFound(msg, tokens, pos)

\* in the parser's inner loops a round that goes on leaves the cursor beyond
\* p: the column list loop, the column definition loop, the AND / OR loop
InnerLoopsAdvance(toks) ==
    \A p \in 0..(Len(toks) - 1) :
        /\ ColumnListStep(toks, p) > p
        /\ AfterColumnDef(toks, p + 2) > p
        /\ parseComparison(toks, p + 1).pos > p

\* what is left to do: the characters not yet scanned, then the tokens not
\* yet parsed, then the return
Remaining ==
    IF pc = "scan" THEN (Len(input) + 1 - i) + 1000
    ELSE IF pc = "parse" THEN Len(tokens) - pos + 1
    ELSE 0

(***************************************************************************)
(* C16.  For every input ParseString terminates and Tokenize does not      *)
(* fail: every round of the scan loop advances the scan index by at least  *)
(* one and reads no index beyond the end of the input, and every round of  *)
(* a parser loop consumes at least one token or returns.  Termination is   *)
(* stated by a measure: every step leaves strictly less to do, and what is *)
(* left is never less than nothing.                                        *)
(***************************************************************************)
C16_Terminates ==
    /\ [][/\ (pc = "scan" /\ pc' = "scan") => i' > i
          /\ (pc = "parse" /\ pc' = "parse") => pos' > pos
          /\ Remaining' < Remaining]_vars
    /\ [](Remaining >= 0 /\ Len(input) < 1000)
    /\ [](InLoop => ScanReads(input, i, current) \subseteq 0..(Len(input) - 1))
    /\ [](pc = "parse" => InnerLoopsAdvance(tokens))

\* an INSERT with a column list has been parsed to the end
C16_Witness ==
    /\ Succeeded
    /\ KwAt(tokens, 1, "insert") /\ SepAt(tokens, 4, "(")
    /\ pos = Len(tokens)
    /\ i >= Len(input)

\* t is CREATE TABLE <identifier> ( ... ) in whose column list one column
\* definition follows another with no comma between them
MissingComma(t) ==
    /\ CreateTable(t)
    /\ \E k \in 6..(Len(t) - 3) : ColumnDefs(t, 5, k) /\ ColumnDefs(t, k + 1, Len(t) - 1)

(***************************************************************************)
(* C17.  A CREATE TABLE column list in which two column definitions follow *)
(* each other with no comma between them, as in                            *)
(* CREATE TABLE t (id INT name TEXT), is a syntax error.  The code         *)
(* violates it: after a definition the loop takes a comma if there is one  *)
(* and goes round again either way.                                        *)
(***************************************************************************)
C17_MissingCommaRejected == (Returned /\ MissingComma(tokens)) => Rejected

\* least index >= k of t holding ")", 0 if there is none
RECURSIVE FirstClose(_, _)
FirstClose(t, k) ==
    IF k > Len(t) THEN 0
    ELSE IF SepAt(t, k, ")") THEN k
    ELSE FirstClose(t, k + 1)

\* t[a .. b] is <identifier> ( , <identifier> )*
RECURSIVE IdentList(_, _, _)
IdentList(t, a, b) ==
    /\ TypeAt(t, a, {"IDENTIFIER"})
    /\ \/ b = a
       \/ (b > a /\ SepAt(t, a + 1, ",") /\ IdentList(t, a + 2, b))

\* t is INSERT INTO <identifier> ( ... ) ... whose parenthesized list is not
\* one or more identifiers separated by single commas
BadColumnList(t) ==
    /\ KwAt(t, 1, "insert") /\ KwAt(t, 2, "into") /\ TypeAt(t, 3, {"IDENTIFIER"})
    /\ SepAt(t, 4, "(")
    /\ FirstClose(t, 5) > 0
    /\ ~IdentList(t, 5, FirstClose(t, 5) - 1)

(***************************************************************************)
(* C18.  The optional parenthesized list between the INSERT table name and *)
(* VALUES is accepted only when it is one or more Identifier tokens        *)
(* separated by single commas: an empty list, a list holding a token that  *)
(* is no identifier, a missing comma, a leading, doubled or trailing comma *)
(* are each a syntax error.  The code violates it: the loop skips every    *)
(* token up to ")" without looking at it.                                  *)
(***************************************************************************)
C18_ColumnListChecked == (Returned /\ BadColumnList(tokens)) => Rejected

\* t[a .. b] is <value> ( , <value> )*
RECURSIVE ValueList(_, _, _)
ValueList(t, a, b) ==
    /\ TypeAt(t, a, {"NUMBER", "STRING", "IDENTIFIER"})
    /\ \/ b = a
       \/ (b > a /\ SepAt(t, a + 1, ",") /\ ValueList(t, a + 2, b))

\* t is INSERT INTO <identifier> VALUES ( ... ) with nothing after the first
\* ")"
InsertParenthesized(t) ==
    /\ KwAt(t, 1, "insert") /\ KwAt(t, 2, "into") /\ TypeAt(t, 3, {"IDENTIFIER"})
    /\ KwAt(t, 4, "values") /\ SepAt(t, 5, "(")
    /\ FirstClose(t, 6) = Len(t)

\* ... whose list ends in a comma that no value follows
TrailingValueComma(t) ==
    InsertParenthesized(t) /\ Len(t) >= 8
    /\ SepAt(t, Len(t) - 1, ",") /\ ValueList(t, 6, Len(t) - 2)

\* ... in whose list a value follows a value with no comma between them
MissingValueComma(t) ==
    /\ InsertParenthesized(t)
    /\ \E k \in 6..(Len(t) - 2) :
          /\ TypeAt(t, k, {"NUMBER", "STRING", "IDENTIFIER"})
          /\ TypeAt(t, k + 1, {"NUMBER", "STRING", "IDENTIFIER"})

(***************************************************************************)
(* C19.  A VALUES list is accepted only when it is values separated by     *)
(* single commas: a list that is anything else, in particular one with a   *)
(* comma followed directly by ")" as in INSERT INTO t VALUES (1,) or with  *)
(* a value followed by another value without a comma, is a syntax error.   *)
(* The code violates it for the trailing comma: after the comma the loop   *)
(* goes round and stops at ")".                                            *)
(***************************************************************************)
C19_ValuesListChecked ==
    (Returned /\ InsertParenthesized(tokens) /\ ~ValueList(tokens, 6, Len(tokens) - 1))
    => Rejected

\* the same for the missing comma alone
C19_MissingValueCommaRejected == (Returned /\ MissingValueComma(tokens)) => Rejected

\* the same for every malformed list but the one with a trailing comma
C19_OtherListsRejected ==
    (/\ Returned /\ InsertParenthesized(tokens)
     /\ ~ValueList(tokens, 6, Len(tokens) - 1) /\ ~TrailingValueComma(tokens))
    => Rejected

\* SELECT * FROM <identifier> at t[k .. k+3], with no WHERE or LIMIT after it
SelectAt(t, k) ==
    /\ KwAt(t, k, "select") /\ SepAt(t, k + 1, "*") /\ KwAt(t, k + 2, "from")
    /\ TypeAt(t, k + 3, {"IDENTIFIER"})
    /\ ~KwAt(t, k + 4, "where") /\ ~KwAt(t, k + 4, "limit")

\* INSERT INTO <identifier> VALUES ( <number> ) at t[k .. k+6]
InsertAt(t, k) ==
    /\ KwAt(t, k, "insert") /\ KwAt(t, k + 1, "into") /\ TypeAt(t, k + 2, {"IDENTIFIER"})
    /\ KwAt(t, k + 3, "values") /\ SepAt(t, k + 4, "(")
    /\ TypeAt(t, k + 5, {"NUMBER"}) /\ SepAt(t, k + 6, ")")
    /\ RefConvertible(t[k + 5].Value)

\* t from index k on is such statements with any number of ";" before,
\* between and after them
RECURSIVE Script(_, _)
Script(t, k) ==
    IF k > Len(t) THEN TRUE
    ELSE IF SepAt(t, k, ";") THEN Script(t, k + 1)
    ELSE IF SelectAt(t, k) THEN Script(t, k + 4)
    ELSE IF InsertAt(t, k) THEN Script(t, k + 7)
    ELSE FALSE

\* the kinds of the statements of a Script, in source order
RECURSIVE ScriptKinds(_, _)
ScriptKinds(t, k) ==
    IF k > Len(t) THEN <<>>
    ELSE IF SepAt(t, k, ";") THEN ScriptKinds(t, k + 1)
    ELSE IF SelectAt(t, k) THEN <<"SelectStmt">> \o ScriptKinds(t, k + 4)
    ELSE <<"InsertStmt">> \o ScriptKinds(t, k + 7)

(***************************************************************************)
(* C20.  At top level every ";" where a statement could start is skipped   *)
(* and at most one ";" after a statement is consumed with it: the nodes    *)
(* returned are the statements of the token sequence, one node each, in    *)
(* source order, whether zero, one or several semicolons separate them; a  *)
(* token sequence that is empty or only semicolons gives no nodes and no   *)
(* error.                                                                  *)
(***************************************************************************)
C20_OneNodePerStatement ==
    (Returned /\ Script(tokens, 1))
    => (/\ Succeeded
        /\ Len(result.nodes) = Len(ScriptKinds(tokens, 1))
        /\ \A n \in 1..Len(result.nodes) :
              result.nodes[n].node = ScriptKinds(tokens, 1)[n])

\* three statements, with none, one and several semicolons between and
\* around them, have given three nodes
C20_Witness ==
    /\ Succeeded
    /\ Script(tokens, 1)
    /\ Len(result.nodes) = 3
    /\ \E k \in 1..Len(tokens) : SepAt(tokens, k, ";") /\ SepAt(tokens, k + 1, ";")

(***************************************************************************)
(* C21.  Every Operator token Tokenize emits has a value among =, !=, <,   *)
(* >, <=, >= and every Separator token a value among , ; ( ) and the       *)
(* asterisk: the single character ! is never an Operator token.  The code  *)
(* violates it: for != after a pending word the operator branch emits the  *)
(* character it entered on, !, as the operator.                            *)
(***************************************************************************)
C21_OperatorsFromFixedSet ==
    \A k \in 1..Len(tokens) :
        /\ tokens[k].Type = "OPERATOR"
              => tokens[k].Value \in RefOneCharOps \cup RefTwoCharOps
        /\ tokens[k].Type = "SEPARATOR" => tokens[k].Value \in RefSeparators

\* the same for the Separator tokens alone
C21_SeparatorsFromFixedSet ==
    \A k \in 1..Len(tokens) :
        tokens[k].Type = "SEPARATOR" => tokens[k].Value \in RefSeparators

====
